---- MODULE Spec2Model ----
(***************************************************************************)
(* Model of the V2I / V2V intersection coordination prototypes:            *)
(*   - IntersectionManager (V2I/python/intersection_manager.py)            *)
(*   - VehicleV2I and the V2I tick loop (V2I/python/...)                   *)
(*   - Vehicle.communicate and event handling (V2V/python/vehicle)         *)
(*   - MessagePacket.report_sizes (both copies)                            *)
(* Speeds are integers in units of 0.1 m/s (10 m/s = 100), so that the     *)
(* factors 0.8 and 1.2 of the controller stay exact.  Distances are        *)
(* compared through their squares (math.hypot on integer coordinates).     *)
(***************************************************************************)
EXTENDS Integers, Sequences, FiniteSets, TLC

VARIABLES
    vehicle_states,   \* IntersectionManager.vehicle_states: ordered dict, a sequence of [k, v]
    ret,              \* result of the most recent decide_priorities call; NoRet once the registry changed after it
    vehicle_objects,  \* sumo_run_v2i.vehicle_objects: ordered dict vid -> VehicleV2I fields
    current_ids,      \* traci.vehicle.getIDList() of the current tick, in its order
    step,             \* the loop counter of run_simulation (capped, see STEP_CAP)
    cmds,             \* the setSpeed commands each vehicle received in the current tick, in order
    pc,               \* "running", "crashed" (uncaught exception) or "closed" (loop left, traci.close())
    veh,              \* a V2V Vehicle object: the fields update() reads, stop_needed, lane_blocked
    op,               \* the most recent call on veh: "init", "update", "communicate", or the event kind ("lane_block_hit" for a lane_block on its lane)
    pass,             \* the most recent communicate() or handle_unexpected_event() call on veh: its inputs and commands
    reports,          \* the four-way overhead table run_simulation builds after the loop, per program
    v2i_veh,          \* a VehicleV2I object driven through its methods
    v2i_call,         \* the most recent call on v2i_veh and the commands it sent
    lane_call,        \* the most recent _change_lane() call made on its own: its inputs and commands
    held_ticks        \* history: per vehicle, its latest approaching ticks in a row that ended in 'wait' behind a closer one

imVars == <<vehicle_states, ret>>

v2iVars == <<vehicle_objects, current_ids, step, cmds, pc, held_ticks>>

v2vVars == <<veh, op, pass>>

vehVars == <<v2i_veh, v2i_call>>

reportVars == <<reports, lane_call>>

vars == <<vehicle_states, ret, vehicle_objects, current_ids, step, cmds, pc, veh, op, pass,
          reports, v2i_veh, v2i_call, lane_call, held_ticks>>

(***************************************************************************)
(* Python dict, insertion ordered: a sequence of [k, v] records            *)
(***************************************************************************)
DictKeySet(d) == {d[i].k : i \in 1..Len(d)}

DictHas(d, key) == \E i \in 1..Len(d) : d[i].k = key

DictGet(d, key) == d[CHOOSE i \in 1..Len(d) : d[i].k = key].v

\* DictPut as setdefault: the value of an existing key is kept
DictPutKeepFirst(d, key, val) ==
    IF DictHas(d, key) THEN d ELSE Append(d, [k |-> key, v |-> val])

\* d[key] = val: an existing key keeps its place, a new key is appended
DictPut(d, key, val) ==
    IF DictHas(d, key)
    THEN [i \in 1..Len(d) |-> IF d[i].k = key THEN [k |-> key, v |-> val] ELSE d[i]]
    ELSE Append(d, [k |-> key, v |-> val])

(***************************************************************************)
(* IntersectionManager                                                     *)
(***************************************************************************)
\* Python's None for last_lane_pos; lane positions are never negative
None == -1

\* approach zone of decide_priorities, in metres
APPROACH_ZONE == 30

\* ids and lane positions the arbiter-level specification draws from
IMVehicles == {"a", "b", "c"}

LanePositions == {5, 20, 30, 35}

Snapshots == [lane_pos : LanePositions, last_lane_pos : LanePositions \cup {None}]

\* HasLastPos with the None test left out
HasLastPosUnchecked(v) == TRUE

\* the guard `v['last_lane_pos'] is not None` of the approaching filter
HasLastPos(v) == v.last_lane_pos # None

\* IsApproaching without the approach-zone test
IsApproachingAnywhere(v) ==
    /\ v.last_lane_pos # None
    /\ v.lane_pos < v.last_lane_pos

\* the approaching filter; `and` short-circuits, so the comparison with
\* last_lane_pos is evaluated only behind the guard
IsApproaching(v) ==
    /\ HasLastPos(v)
    /\ v.lane_pos < v.last_lane_pos
    /\ v.lane_pos < APPROACH_ZONE

\* lane_pos < last_lane_pos raises TypeError when it is evaluated on None
ComparisonRaises(v) == HasLastPos(v) /\ v.last_lane_pos = None

\* approaching = {vid: v for ... if ...}: the entries of d that pass the filter, in d's order
RECURSIVE FilterApproaching(_)
FilterApproaching(d) ==
    IF d = <<>> THEN <<>>
    ELSE IF IsApproaching(Head(d).v)
         THEN <<Head(d)>> \o FilterApproaching(Tail(d))
         ELSE FilterApproaching(Tail(d))

\* InsertSorted with the comparison turned round: the sort is descending
RECURSIVE InsertSortedDescending(_, _)
InsertSortedDescending(e, s) ==
    IF s = <<>> THEN <<e>>
    ELSE IF e.v.lane_pos > Head(s).v.lane_pos
         THEN <<e>> \o s
         ELSE <<Head(s)>> \o InsertSortedDescending(e, Tail(s))

\* InsertSorted that places e before the entries with an equal key
RECURSIVE InsertSortedBeforeEqual(_, _)
InsertSortedBeforeEqual(e, s) ==
    IF s = <<>> THEN <<e>>
    ELSE IF e.v.lane_pos <= Head(s).v.lane_pos
         THEN <<e>> \o s
         ELSE <<Head(s)>> \o InsertSortedBeforeEqual(e, Tail(s))

\* insertion of e into a sequence sorted by lane_pos, after the entries with an equal key
RECURSIVE InsertSorted(_, _)
InsertSorted(e, s) ==
    IF s = <<>> THEN <<e>>
    ELSE IF e.v.lane_pos < Head(s).v.lane_pos
         THEN <<e>> \o s
         ELSE <<Head(s)>> \o InsertSorted(e, Tail(s))

\* sorted(approaching.items(), key=lane_pos): a stable sort
RECURSIVE SortedByLanePos(_)
SortedByLanePos(d) ==
    IF d = <<>> THEN <<>>
    ELSE InsertSorted(d[Len(d)], SortedByLanePos(SubSeq(d, 1, Len(d) - 1)))

\* VerdictFor with aging: an agent that was held before is let through
VerdictForAged(vid, approaching, allowed_vid) ==
    IF ~DictHas(approaching, vid) THEN "go"
    ELSE IF vid = allowed_vid THEN "go"
    ELSE IF vid \in DOMAIN held_ticks /\ held_ticks[vid] > 0 THEN "go"
    ELSE "wait"

\* the verdict of one registered id when some agent is approaching
VerdictFor(vid, approaching, allowed_vid) ==
    IF ~DictHas(approaching, vid) THEN "go"
    ELSE IF vid = allowed_vid THEN "go"
    ELSE "wait"

\* decide_priorities(): the returned mapping, or the TypeError of the filter
decide_priorities(d) ==
    IF \E i \in 1..Len(d) : ComparisonRaises(d[i].v)
    THEN [kind |-> "raise", decisions |-> <<>>]
    ELSE LET approaching == FilterApproaching(d)
         IN IF approaching = <<>>
            THEN [kind |-> "ok", decisions |-> [vid \in DictKeySet(d) |-> "go"]]
            ELSE LET allowed_vid == SortedByLanePos(approaching)[1].k
                 IN [kind |-> "ok",
                     decisions |-> [vid \in DictKeySet(d) |->
                                       VerdictFor(vid, approaching, allowed_vid)]]

NoRet == [kind |-> "none", decisions |-> <<>>]

(***************************************************************************)
(* Identifiers as character sequences, for Python's substring test `in`    *)
(***************************************************************************)
Chars(name) ==
    CASE name = "41224286#1"   -> <<"4","1","2","2","4","2","8","6","#","1">>
      [] name = "41224286#1_0" -> <<"4","1","2","2","4","2","8","6","#","1","_","0">>
      [] name = "41224286#1_1" -> <<"4","1","2","2","4","2","8","6","#","1","_","1">>
      [] name = "23339459_0"   -> <<"2","3","3","3","9","4","5","9","_","0">>
      [] name = ":J_0"         -> <<":","J","_","0">>
      [] name = ":J"           -> <<":","J">>
      [] name = "41224286#10_0" -> <<"4","1","2","2","4","2","8","6","#","1","0","_","0">>
      [] name = "41224286#10"  -> <<"4","1","2","2","4","2","8","6","#","1","0">>
      [] name = ""             -> <<>>

\* `a in b` on str: a occurs in b as a contiguous substring
IsSubstring(a, b) ==
    LET ca == Chars(a)
        cb == Chars(b)
    IN \E i \in 0..(Len(cb) - Len(ca)) : SubSeq(cb, i + 1, i + Len(ca)) = ca

(***************************************************************************)
(* The road network the simulator reports                                  *)
(***************************************************************************)
\* traci.edge.getLaneNumber(edge_id)
NumLanes(edge_id) == IF edge_id = "41224286#1" THEN 2 ELSE 1

\* traci.vehicle.getLaneIndex(vehicle_id): the index the lane id ends with
LaneIndex(lane) == IF lane = "41224286#1_1" THEN 1 ELSE 0

\* traci.vehicle.getRoadID(vehicle_id) of a vehicle on `lane`
EdgeOfLane(lane) ==
    CASE lane = "41224286#1_0" -> "41224286#1"
      [] lane = "41224286#1_1" -> "41224286#1"
      [] lane = "23339459_0"   -> "23339459"
      [] lane = ":J_0"         -> ":J"
      [] lane = "41224286#10_0" -> "41224286#10"

\* traci.vehicle.changeLane(...): the exception a rejected request raises
ChangeLaneException(accepted) == IF accepted THEN "none" ELSE "TraCIException"

(***************************************************************************)
(* VehicleV2I                                                              *)
(***************************************************************************)
\* lane_pos beyond which apply_decision never stops the vehicle, in metres
PAST_ZONE == 30

\* setSpeed(-1.0): hand speed control back to the simulator (units of 0.1 m/s)
SPEED_RELEASE == -10

\* setSpeed(0) / setSpeed(0.0)
SPEED_STOP == 0

\* UpdateV2I that sets last_lane_pos once and never refreshes it
UpdateV2IKeepsFirst(old, sim) ==
    [lane_pos      |-> sim.lane_pos,
     last_lane_pos |-> IF old = <<>> THEN None
                       ELSE IF old.last_lane_pos = None THEN old.lane_pos
                       ELSE old.last_lane_pos,
     edge_id       |-> sim.edge_id,
     current_lane  |-> sim.current_lane]

\* VehicleV2I.update(): last_lane_pos = getattr(self, 'lane_pos', None), then
\* the fields are read from the simulator; `old` is the object before (or
\* <<>> in __init__, where the attribute does not exist yet)
UpdateV2I(old, sim) ==
    [lane_pos      |-> sim.lane_pos,
     last_lane_pos |-> IF old = <<>> THEN None ELSE old.lane_pos,
     edge_id       |-> sim.edge_id,
     current_lane  |-> sim.current_lane]

\* VehicleV2I.report_state(): the fields the arbiter reads
ReportState(obj) == [lane_pos |-> obj.lane_pos, last_lane_pos |-> obj.last_lane_pos]

\* ApplyDecision without the past-zone override
ApplyDecisionNoOverride(obj, decision) ==
    IF decision = "wait" THEN <<SPEED_STOP>>
    ELSE IF decision = "go" THEN <<SPEED_RELEASE>>
    ELSE <<>>

\* ApplyDecision with the override starting at lane_pos 30 itself
ApplyDecisionFromZoneEdge(obj, decision) ==
    IF obj.lane_pos >= PAST_ZONE THEN <<SPEED_RELEASE>>
    ELSE IF decision = "wait" THEN <<SPEED_STOP>>
    ELSE IF decision = "go" THEN <<SPEED_RELEASE>>
    ELSE <<>>

\* VehicleV2I.apply_decision(decision): the setSpeed commands it issues
ApplyDecision(obj, decision) ==
    IF obj.lane_pos > PAST_ZONE THEN <<SPEED_RELEASE>>
    ELSE IF decision = "wait" THEN <<SPEED_STOP>>
    ELSE IF decision = "go" THEN <<SPEED_RELEASE>>
    ELSE <<>>

\* VehicleV2I.handle_unexpected_event("full_block", lane_name): whether it commands a stop
FullBlockMatchesV2I(obj, lane_name) == IsSubstring(lane_name, obj.current_lane)

\* _change_lane() with the changeLane call outside any try block
ChangeLaneUnguarded(exc) == exc # "none"

\* `except traci.TraCIException` of VehicleV2I._change_lane(): whether an
\* exception raised by changeLane leaves the method
ChangeLaneEscapesV2I(exc) == exc # "none" /\ exc # "TraCIException"

\* the body of VehicleV2I._change_lane() on the two values it reads from the
\* simulator: a changeLane request to alt_lane, or a stop on a single lane
change_lane_v2i(lane_index, num_lanes) ==
    IF num_lanes > 1
    THEN [speed_cmds |-> <<>>,
          lane_changes |-> <<IF num_lanes = 2 THEN 1 - lane_index
                             ELSE (lane_index + 1) % num_lanes>>]
    ELSE [speed_cmds |-> <<SPEED_STOP>>, lane_changes |-> <<>>]

\* VehicleV2I._change_lane(): lane_index is read from the simulator at the
\* time of the call, num_lanes is that of the object's edge_id
ChangeLaneV2I(obj, lane_index) == change_lane_v2i(lane_index, NumLanes(obj.edge_id))

\* VehicleV2I.handle_unexpected_event(event_type, lane_name): the commands it sends
handle_unexpected_event_v2i(obj, event_type, lane_name, lane_index) ==
    IF event_type = "full_block" /\ FullBlockMatchesV2I(obj, lane_name)
    THEN [speed_cmds |-> <<SPEED_STOP>>, lane_changes |-> <<>>]
    ELSE IF event_type = "lane_block" /\ lane_name = obj.current_lane
    THEN ChangeLaneV2I(obj, lane_index)
    ELSE [speed_cmds |-> <<>>, lane_changes |-> <<>>]

\* readings of the simulator for a vehicle on one of `lanes`
ReadingsOn(positions, lanes) ==
    { [lane_pos |-> lp, current_lane |-> l, edge_id |-> EdgeOfLane(l)] :
        lp \in positions, l \in lanes }

\* lanes the simulator places the vehicles on
SimLanes == {"41224286#1_0", "23339459_0"}

\* readings the single VehicleV2I object is driven with
VehReadings == ReadingsOn(LanePositions, SimLanes \cup {"41224286#1_1"})

Verdicts == {"go", "wait"}

\* event kinds and lane names of the injected events
EventTypes == {"full_block", "lane_block"}

VehEventLanes == {"41224286#1", "41224286#1_0", "23339459_0"}

\* VehicleV2I(vehicle_id): __init__ runs update() on a fresh object
NewVehicleV2I(sim) == UpdateV2I(<<>>, sim)

NoCall == [name |-> "init", arg |-> "", lane_name |-> "", speed_cmds |-> <<>>,
           lane_changes |-> <<>>, accepted |-> TRUE, raised |-> FALSE]

\* v.update()
VehUpdate(sim) ==
    /\ v2i_veh' = UpdateV2I(v2i_veh, sim)
    /\ v2i_call' = [NoCall EXCEPT !.name = "update"]
    /\ UNCHANGED <<imVars, v2iVars, v2vVars, reportVars>>

\* v.apply_decision(decision)
VehApplyDecision(decision) ==
    /\ v2i_call' = [NoCall EXCEPT !.name = "apply_decision", !.arg = decision,
                                  !.speed_cmds = ApplyDecision(v2i_veh, decision)]
    /\ UNCHANGED v2i_veh
    /\ UNCHANGED <<imVars, v2iVars, v2vVars, reportVars>>

\* v.handle_unexpected_event(event_type, lane_name); a requested lane change
\* is accepted by the simulator or rejected (TraCIException, caught)
VehHandleEvent(event_type, lane_name) ==
    \E res \in {handle_unexpected_event_v2i(v2i_veh, event_type, lane_name,
                                            LaneIndex(v2i_veh.current_lane))} :
    \E accepted \in (IF res.lane_changes = <<>> THEN {TRUE} ELSE BOOLEAN) :
       /\ v2i_call' = [name |-> "handle_unexpected_event", arg |-> event_type,
                       lane_name |-> lane_name, speed_cmds |-> res.speed_cmds,
                       lane_changes |-> res.lane_changes, accepted |-> accepted,
                       raised |-> ChangeLaneEscapesV2I(ChangeLaneException(accepted))]
       /\ UNCHANGED v2i_veh
       /\ UNCHANGED <<imVars, v2iVars, v2vVars, reportVars>>

(***************************************************************************)
(* sumo_run_v2i.run_simulation                                             *)
(***************************************************************************)
\* ids the tick loop draws from
SimVehicles == {"a", "b"}

\* inject_unexpected_events fires while (20 > step) and (step < 30)
EVENT_BEFORE == 20

EVENT_AND_BEFORE == 30

\* the lane name inject_unexpected_events passes
EVENT_LANE == "41224286#1"

\* step is only read by inject_unexpected_events; every step >= STEP_CAP
\* behaves like STEP_CAP, so the counter is held there
STEP_CAP == EVENT_BEFORE

\* The first vehicle enters the network MaxEventTicks ticks before the event
\* window closes: the ticks before it see no vehicle and only count step up.
MaxEventTicks == 2

FirstStep == IF EVENT_BEFORE > MaxEventTicks THEN EVENT_BEFORE - MaxEventTicks ELSE 0

EventFires(s) == (EVENT_BEFORE > s) /\ (s < EVENT_AND_BEFORE)

\* lane positions the simulator reports in the tick loop
SimLanePositions == {5, 20, 35}

\* what the simulator reports for one vehicle in a tick
SimReadings == ReadingsOn(SimLanePositions, SimLanes)

\* getIDList(): the running vehicles, each once, in the simulator's order
IdLists ==
    {ids \in UNION {[1..n -> SimVehicles] : n \in 0..Cardinality(SimVehicles)} :
        \A i, j \in 1..Len(ids) : i # j => ids[i] # ids[j]}

SeqToSet(s) == {s[i] : i \in 1..Len(s)}

\* inject_unexpected_events(step): handle_unexpected_event on every object of
\* vehicle_objects, in dict order.  setSpeed on a vehicle that has left the
\* simulation raises TraCIException, which nothing catches.
RECURSIVE InjectEvents(_, _, _)
InjectEvents(objs, known, acc) ==
    IF objs = <<>> THEN [crashed |-> FALSE, cmds |-> acc]
    ELSE LET e == Head(objs)
         IN IF FullBlockMatchesV2I(e.v, EVENT_LANE)
            THEN IF e.k \in known
                 THEN InjectEvents(Tail(objs), known,
                                   [acc EXCEPT ![e.k] = Append(@, SPEED_STOP)])
                 ELSE [crashed |-> TRUE, cmds |-> acc]
            ELSE InjectEvents(Tail(objs), known, acc)

\* for vid in current_ids: create the object (new key appended) or update() it
RECURSIVE RefreshObjects(_, _, _)
RefreshObjects(objs, ids, sim) ==
    IF ids = <<>> THEN objs
    ELSE LET vid == Head(ids)
             old == IF DictHas(objs, vid) THEN DictGet(objs, vid) ELSE <<>>
         IN RefreshObjects(DictPut(objs, vid, UpdateV2I(old, sim[vid])), Tail(ids), sim)

\* for vid, v in active_vehicles.items(): register_vehicle(vid, v.report_state())
RECURSIVE RegisterAll(_, _, _)
RegisterAll(states, ids, objs) ==
    IF ids = <<>> THEN states
    ELSE RegisterAll(DictPut(states, Head(ids), ReportState(DictGet(objs, Head(ids)))),
                     Tail(ids), objs)

NoCmds == [vid \in SimVehicles |-> <<>>]

\* the longest run of held approaching ticks that is counted
MaxHeldTicks == 2

\* the history of the verdicts of run_simulation's loop: an observed agent
\* that is approaching and told to wait while another observed approaching
\* agent has a smaller lane_pos has one more held tick; any other verdict
\* on a tick on which it approaches ends the run; other ticks do not count
HeldTicksAfter(vid, ids, regs, dec) ==
    IF vid \notin SeqToSet(ids) \/ ~IsApproaching(DictGet(regs, vid)) THEN held_ticks[vid]
    ELSE IF /\ dec.decisions[vid] = "wait"
            /\ \E o \in SeqToSet(ids) \ {vid} :
                  /\ IsApproaching(DictGet(regs, o))
                  /\ DictGet(regs, o).lane_pos < DictGet(regs, vid).lane_pos
         THEN IF held_ticks[vid] < MaxHeldTicks THEN held_ticks[vid] + 1 ELSE held_ticks[vid]
         ELSE 0

\* TickResult with the event commands sent after those of apply_decision
TickResultEventsLast(ids, ev, objs, regs, dec) ==
    IF ev.crashed
    THEN /\ pc' = "crashed"
         /\ cmds' = ev.cmds
         /\ UNCHANGED <<vehicle_states, ret, vehicle_objects, current_ids, step, held_ticks>>
    ELSE /\ vehicle_objects' = objs
         /\ current_ids' = ids
         /\ vehicle_states' = regs
         /\ ret' = dec
         /\ IF dec.kind = "ok"
            THEN /\ cmds' = [vid \in SimVehicles |->
                               IF vid \in SeqToSet(ids)
                               THEN ApplyDecision(DictGet(objs, vid), dec.decisions[vid])
                                    \o ev.cmds[vid]
                               ELSE ev.cmds[vid]]
                 /\ step' = IF step < STEP_CAP THEN step + 1 ELSE step
                 /\ held_ticks' = [vid \in SimVehicles |-> HeldTicksAfter(vid, ids, regs, dec)]
                 /\ pc' = "running"
            ELSE /\ cmds' = ev.cmds
                 /\ pc' = "crashed"
                 /\ UNCHANGED <<step, held_ticks>>

\* the state one iteration leaves, given the outcome of the event injection,
\* the refreshed objects, the registry after registration and the decisions
TickResult(ids, ev, objs, regs, dec) ==
    IF ev.crashed
    THEN /\ pc' = "crashed"
         /\ cmds' = ev.cmds
         /\ UNCHANGED <<vehicle_states, ret, vehicle_objects, current_ids, step, held_ticks>>
    ELSE /\ vehicle_objects' = objs
         /\ current_ids' = ids
         /\ vehicle_states' = regs
         /\ ret' = dec
         /\ IF dec.kind = "ok"
            THEN /\ cmds' = [vid \in SimVehicles |->
                               IF vid \in SeqToSet(ids)
                               THEN ev.cmds[vid] \o
                                    ApplyDecision(DictGet(objs, vid), dec.decisions[vid])
                               ELSE ev.cmds[vid]]
                 /\ step' = IF step < STEP_CAP THEN step + 1 ELSE step
                 /\ held_ticks' = [vid \in SimVehicles |-> HeldTicksAfter(vid, ids, regs, dec)]
                 /\ pc' = "running"
            ELSE /\ cmds' = ev.cmds
                 /\ pc' = "crashed"
                 /\ UNCHANGED <<step, held_ticks>>

\* one iteration of the while loop of run_simulation: simulationStep (the
\* readings `sim` of the vehicles `ids`), inject_unexpected_events, the
\* refresh of the objects, registration, decide_priorities, apply_decision
Tick(ids, sim) ==
    /\ pc = "running"
    /\ UNCHANGED <<v2vVars, reportVars, vehVars>>
    /\ \E ev \in {IF EventFires(step)
                  THEN InjectEvents(vehicle_objects, SeqToSet(ids), NoCmds)
                  ELSE [crashed |-> FALSE, cmds |-> NoCmds]} :
       \E objs \in {RefreshObjects(vehicle_objects, ids, sim)} :
       \E regs \in {RegisterAll(vehicle_states, ids, objs)} :
       \E dec \in {decide_priorities(regs)} :
          TickResult(ids, ev, objs, regs, dec)

\* getMinExpectedNumber() <= 0: the loop is left and traci.close() runs
Close ==
    /\ pc = "running"
    /\ pc' = "closed"
    /\ UNCHANGED <<vehicle_states, ret, vehicle_objects, current_ids, step, cmds, held_ticks>>
    /\ UNCHANGED <<v2vVars, reportVars, vehVars>>

(***************************************************************************)
(* V2V Vehicle (V2V/python/vehicle/vehicle.py)                             *)
(***************************************************************************)
\* the intersection rectangle of communicate(), in metres
INTERSECTION_X_MIN == 4370

INTERSECTION_X_MAX == 4400

INTERSECTION_Y_MIN == 1320

INTERSECTION_Y_MAX == 1350

\* communicate(all_vehicles, radius=20.0, safe_distance=15.0), in metres
RADIUS == 20

SAFE_DISTANCE == 15

\* speed thresholds of the no-leader branch, in units of 0.1 m/s (5 and 25 m/s)
LOW_SPEED == 50

HIGH_SPEED == 250

\* the substitute speed 1.0 m/s of the no-leader branch, in units of 0.1 m/s
CRAWL_SPEED == 10

\* where the simulator places a vehicle: position, edge, lane position, lane
Placements ==
    { [position |-> <<4335, 1335>>, edge_id |-> "41224286#1", lane_pos |-> 40,
       current_lane |-> "41224286#1_0"],
      [position |-> <<4345, 1335>>, edge_id |-> "41224286#1", lane_pos |-> 50,
       current_lane |-> "41224286#1_0"],
      [position |-> <<4350, 1335>>, edge_id |-> "41224286#1", lane_pos |-> 55,
       current_lane |-> "41224286#1_1"],
      [position |-> <<4360, 1335>>, edge_id |-> "41224286#1", lane_pos |-> 65,
       current_lane |-> "41224286#1_0"],
      [position |-> <<4365, 1335>>, edge_id |-> "41224286#1", lane_pos |-> 70,
       current_lane |-> "41224286#1_1"],
      [position |-> <<4370, 1335>>, edge_id |-> ":J", lane_pos |-> 0,
       current_lane |-> ":J_0"],
      [position |-> <<4380, 1335>>, edge_id |-> ":J", lane_pos |-> 10,
       current_lane |-> ":J_0"] }

\* speeds the simulator reports, in units of 0.1 m/s (0 and 10 m/s)
Speeds == {0, 100}

\* what update() reads from the simulator
Readings ==
    { [position |-> p.position, edge_id |-> p.edge_id, lane_pos |-> p.lane_pos,
       current_lane |-> p.current_lane, speed |-> sp] : p \in Placements, sp \in Speeds }

\* what the simulator reports when the Vehicle object is constructed
FirstReading ==
    [position |-> <<4335, 1335>>, edge_id |-> "41224286#1", lane_pos |-> 40,
     current_lane |-> "41224286#1_0", speed |-> 100]

EgoId == "ego"

OtherIds == <<"o1", "o2">>

\* Vehicle.update(): the simulator's readings replace the kinematic fields
UpdateVehicle(v, r) ==
    [v EXCEPT !.position = r.position, !.edge_id = r.edge_id, !.lane_pos = r.lane_pos,
              !.current_lane = r.current_lane, !.speed = r.speed]

\* Vehicle.__init__: update(), then both flags False
NewVehicle(r) ==
    [position |-> r.position, edge_id |-> r.edge_id, lane_pos |-> r.lane_pos,
     current_lane |-> r.current_lane, speed |-> r.speed,
     stop_needed |-> FALSE, lane_blocked |-> FALSE]

is_inside_intersection(v) ==
    /\ INTERSECTION_X_MIN <= v.position[1] /\ v.position[1] <= INTERSECTION_X_MAX
    /\ INTERSECTION_Y_MIN <= v.position[2] /\ v.position[2] <= INTERSECTION_Y_MAX

\* _distance_to: math.hypot(dx, dy), kept as its square
DistSq(a, b) ==
    (b.position[1] - a.position[1]) * (b.position[1] - a.position[1])
  + (b.position[2] - a.position[2]) * (b.position[2] - a.position[2])

is_on_same_edge(a, b) == a.edge_id = b.edge_id

\* Vehicle._is_ahead_of(other): self.lane_pos < other.lane_pos
is_ahead_of(a, b) == a.lane_pos < b.lane_pos

\* x * 0.8 and x * 1.2 on speeds in units of 0.1 m/s
Times08(x) == (x * 8) \div 10

Times12(x) == (x * 12) \div 10

Max0(x) == IF x > 0 THEN x ELSE 0

\* Step 1: self is outside the rectangle and some other vehicle is inside it
\* at a distance below safe_distance
ConflictAhead(self_id, self, all_vehicles) ==
    /\ ~is_inside_intersection(self)
    /\ \E i \in 1..Len(all_vehicles) :
          /\ all_vehicles[i].k # self_id
          /\ is_inside_intersection(all_vehicles[i].v)
          /\ DistSq(self, all_vehicles[i].v) < SAFE_DISTANCE * SAFE_DISTANCE

\* Step 3: the leaders, in the order of all_vehicles
RECURSIVE Leaders(_, _, _)
Leaders(self_id, self, all_vehicles) ==
    IF all_vehicles = <<>> THEN <<>>
    ELSE LET e == Head(all_vehicles)
             rest == Leaders(self_id, self, Tail(all_vehicles))
         IN IF /\ e.k # self_id
               /\ is_on_same_edge(self, e.v)
               /\ DistSq(self, e.v) <= RADIUS * RADIUS
               /\ is_ahead_of(self, e.v)
            THEN <<e>> \o rest
            ELSE rest

\* min(leaders, key=distance): the first leader at the least distance
RECURSIVE NearestLeader(_, _)
NearestLeader(self, leaders) ==
    IF Len(leaders) = 1 THEN leaders[1]
    ELSE LET best == NearestLeader(self, SubSeq(leaders, 1, Len(leaders) - 1))
             last == leaders[Len(leaders)]
         IN IF DistSq(self, last.v) < DistSq(self, best.v) THEN last ELSE best

\* `except traci.TraCIException` of Vehicle._change_lane(): whether an
\* exception raised by changeLane leaves the method
ChangeLaneEscapes(exc) == exc # "none" /\ exc # "TraCIException"

\* change_lane that always asks for lane 1 - lane_index
change_lane_two_lane_rule(lane_index, num_lanes) ==
    IF num_lanes > 1
    THEN [speed_cmds |-> <<>>, lane_changes |-> <<1 - lane_index>>]
    ELSE [speed_cmds |-> <<>>, lane_changes |-> <<>>]

\* the body of Vehicle._change_lane() on the two values it reads from the
\* simulator: a changeLane request to alt_lane, or nothing on a single lane
change_lane(lane_index, num_lanes) ==
    IF num_lanes > 1
    THEN [speed_cmds |-> <<>>,
          lane_changes |-> <<IF num_lanes = 2 THEN 1 - lane_index
                             ELSE (lane_index + 1) % num_lanes>>]
    ELSE [speed_cmds |-> <<>>, lane_changes |-> <<>>]

\* _change_lane(): the target lane index requested, <<>> when none is
ChangeLaneTarget(self) ==
    change_lane(LaneIndex(self.current_lane), NumLanes(self.edge_id)).lane_changes

\* LaneBlockedReaction without the single-lane stop
LaneBlockedReactionNoFallback(self) ==
    [speed_cmds |-> <<>>, lane_changes |-> ChangeLaneTarget(self)]

\* the lane_blocked branch of communicate(): lane change, or stop on a single lane
LaneBlockedReaction(self) ==
    IF NumLanes(self.edge_id) > 1
    THEN [speed_cmds |-> <<>>, lane_changes |-> ChangeLaneTarget(self)]
    ELSE [speed_cmds |-> <<SPEED_STOP>>, lane_changes |-> <<>>]

\* FollowLeader with `<=` for `<` in the safety-distance test
FollowLeaderInclusive(self, leaders) ==
    LET nearest_leader == NearestLeader(self, leaders)
    IN IF DistSq(self, nearest_leader.v) <= SAFE_DISTANCE * SAFE_DISTANCE
       THEN <<Max0(Times08(nearest_leader.v.speed))>>
       ELSE <<>>

\* the leader branch of communicate(): slow down behind the nearest leader, or nothing
FollowLeader(self, leaders) ==
    LET nearest_leader == NearestLeader(self, leaders)
    IN IF DistSq(self, nearest_leader.v) < SAFE_DISTANCE * SAFE_DISTANCE
       THEN <<Max0(Times08(nearest_leader.v.speed))>>
       ELSE <<>>

\* the no-leader branch of communicate()
NoLeader(self) ==
    IF self.speed < LOW_SPEED /\ ~(self.speed > HIGH_SPEED)
    THEN <<Max0(Times12(IF self.speed > 0 THEN self.speed ELSE CRAWL_SPEED))>>
    ELSE <<>>

\* ConflictStop that goes on to consume the pending flags
ConflictStopClearsFlags(self) ==
    [speed_cmds |-> <<SPEED_STOP>>, lane_changes |-> <<>>,
     stop_needed |-> FALSE, lane_blocked |-> FALSE]

\* Step 1 of communicate(): stop and return, the flags untouched
ConflictStop(self) ==
    [speed_cmds |-> <<SPEED_STOP>>, lane_changes |-> <<>>,
     stop_needed |-> self.stop_needed, lane_blocked |-> self.lane_blocked]

\* `if self.stop_needed:` clear the flag, _stop_and_wait(), return
StopNeededBranch(self) ==
    [speed_cmds |-> <<SPEED_STOP>>, lane_changes |-> <<>>,
     stop_needed |-> FALSE, lane_blocked |-> self.lane_blocked]

\* LaneBlockedBranch that forgets to clear the flag
LaneBlockedBranchKeepsFlag(self) ==
    [speed_cmds |-> LaneBlockedReaction(self).speed_cmds,
     lane_changes |-> LaneBlockedReaction(self).lane_changes,
     stop_needed |-> self.stop_needed, lane_blocked |-> self.lane_blocked]

\* `if self.lane_blocked:` react, clear the flag, return
LaneBlockedBranch(self) ==
    [speed_cmds |-> LaneBlockedReaction(self).speed_cmds,
     lane_changes |-> LaneBlockedReaction(self).lane_changes,
     stop_needed |-> self.stop_needed, lane_blocked |-> FALSE]

\* the car-following part of communicate(): no leader, or the nearest leader
CarFollowing(self, leaders) ==
    [speed_cmds |-> IF leaders = <<>> THEN NoLeader(self) ELSE FollowLeader(self, leaders),
     lane_changes |-> <<>>,
     stop_needed |-> self.stop_needed, lane_blocked |-> self.lane_blocked]

\* communicate() whose blockage branches fall through to car-following
communicateFallsThrough(self_id, self, all_vehicles) ==
    LET following == CarFollowing(self, Leaders(self_id, self, all_vehicles)).speed_cmds
    IN IF ConflictAhead(self_id, self, all_vehicles) THEN ConflictStop(self)
       ELSE IF self.stop_needed
       THEN [StopNeededBranch(self) EXCEPT !.speed_cmds = @ \o following]
       ELSE IF self.lane_blocked
       THEN [LaneBlockedBranch(self) EXCEPT !.speed_cmds = @ \o following]
       ELSE CarFollowing(self, Leaders(self_id, self, all_vehicles))

\* communicate(all_vehicles): the commands sent to the simulator and the
\* flags the call leaves
communicate(self_id, self, all_vehicles) ==
    IF ConflictAhead(self_id, self, all_vehicles) THEN ConflictStop(self)
    ELSE IF self.stop_needed THEN StopNeededBranch(self)
    ELSE IF self.lane_blocked THEN LaneBlockedBranch(self)
    ELSE CarFollowing(self, Leaders(self_id, self, all_vehicles))

\* handle_unexpected_event(event_type, lane_name): the flags it leaves
FullBlockMatches(v, lane_name) == IsSubstring(lane_name, v.current_lane)

LaneBlockMatches(v, lane_name) == lane_name = v.current_lane

\* handle_unexpected_event where a full_block raises both flags
handle_unexpected_event_coupled(v, event_type, lane_name) ==
    IF event_type = "full_block" /\ FullBlockMatches(v, lane_name)
    THEN [v EXCEPT !.stop_needed = TRUE, !.lane_blocked = TRUE]
    ELSE IF event_type = "lane_block" /\ LaneBlockMatches(v, lane_name)
    THEN [v EXCEPT !.lane_blocked = TRUE]
    ELSE v

handle_unexpected_event(v, event_type, lane_name) ==
    IF event_type = "full_block" /\ FullBlockMatches(v, lane_name)
    THEN [v EXCEPT !.stop_needed = TRUE]
    ELSE IF event_type = "lane_block" /\ LaneBlockMatches(v, lane_name)
    THEN [v EXCEPT !.lane_blocked = TRUE]
    ELSE v

NoPass == [kind |-> "none"]

NoLaneCall == [kind |-> "none"]

\* lane names an event may carry
EventLanes == {"41224286#1", "41224286#1_0", ":J_0"}

\* the other vehicles handed to communicate(): none, one or two, each anywhere
OtherLists ==
    {<<>>}
    \cup {<<[k |-> OtherIds[1], v |-> r]>> : r \in Readings}
    \cup {<<[k |-> OtherIds[1], v |-> r1], [k |-> OtherIds[2], v |-> r2]>> :
             r1 \in Readings, r2 \in Readings}

\* vehicle.update() on a simulation step
Update(r) ==
    /\ veh' = UpdateVehicle(veh, r)
    /\ op' = "update"
    /\ pass' = NoPass
    /\ UNCHANGED <<imVars, v2iVars, reportVars, vehVars>>

\* v.handle_unexpected_event(event_type, lane_name)
HandleEvent(event_type, lane_name) ==
    /\ veh' = handle_unexpected_event(veh, event_type, lane_name)
    /\ op' = IF event_type = "lane_block" /\ lane_name = veh.current_lane
             THEN "lane_block_hit" ELSE event_type
    /\ pass' = [kind |-> "event", event_type |-> event_type, lane_name |-> lane_name,
                pre |-> veh]
    /\ UNCHANGED <<imVars, v2iVars, reportVars, vehVars>>

\* v.communicate(active_vehicles); when a lane change is requested the
\* simulator accepts it or rejects it (TraCIException).  An exception that
\* left _change_lane would leave communicate() before `lane_blocked = False`.
Communicate(others) ==
    \E all \in {<<[k |-> EgoId, v |-> veh]>> \o others} :
    \E res \in {communicate(EgoId, veh, all)} :
    \E accepted \in (IF res.lane_changes = <<>> THEN {TRUE} ELSE BOOLEAN) :
    \E raised \in {ChangeLaneEscapes(ChangeLaneException(accepted))} :
       /\ veh' = [veh EXCEPT !.stop_needed = res.stop_needed,
                             !.lane_blocked = IF raised THEN @ ELSE res.lane_blocked]
       /\ op' = "communicate"
       /\ pass' = [kind |-> "pass", pre |-> veh, others |-> others,
                   speed_cmds |-> res.speed_cmds, lane_changes |-> res.lane_changes,
                   accepted |-> accepted, raised |-> raised]
       /\ UNCHANGED <<imVars, v2iVars, reportVars, vehVars>>

(***************************************************************************)
(* MessagePacket.report_sizes (one copy per program) and the final table   *)
(***************************************************************************)
\* report_sizes with the two scheduling_info sizes of 5G NR-V2X swapped
report_sizes_swapped(payload, max_overhead) ==
    LET mac_header        == IF max_overhead THEN 40 ELSE 30
        llc_snap          == 8
        security_dsrc     == IF max_overhead THEN 100 ELSE 60
        dsrc_total        == payload + mac_header + llc_snap + security_dsrc
        sci               == IF max_overhead THEN 24 ELSE 16
        protocol_stack    == IF max_overhead THEN 40 ELSE 20
        security_cv2x     == 48
        cv2x_total        == payload + sci + protocol_stack + security_cv2x
        scheduling_info   == IF max_overhead THEN 24 ELSE 40
        protocol_stack_5g == 48
        security_5g       == 72
        v2x5g_total       == payload + scheduling_info + protocol_stack_5g + security_5g
    IN [Payload |-> payload, DSRC |-> dsrc_total, CV2X |-> cv2x_total, NR5G |-> v2x5g_total]

\* report_sizes where the two copies have drifted apart: LLC/SNAP left out of DSRC
report_sizes_drifted(payload, max_overhead) ==
    LET mac_header        == IF max_overhead THEN 40 ELSE 30
        security_dsrc     == IF max_overhead THEN 100 ELSE 60
        dsrc_total        == payload + mac_header + security_dsrc
        sci               == IF max_overhead THEN 24 ELSE 16
        protocol_stack    == IF max_overhead THEN 40 ELSE 20
        security_cv2x     == 48
        cv2x_total        == payload + sci + protocol_stack + security_cv2x
        scheduling_info   == IF max_overhead THEN 40 ELSE 24
        protocol_stack_5g == 48
        security_5g       == 72
        v2x5g_total       == payload + scheduling_info + protocol_stack_5g + security_5g
    IN [Payload |-> payload, DSRC |-> dsrc_total, CV2X |-> cv2x_total, NR5G |-> v2x5g_total]

\* MessagePacket.report_sizes(payload, max_overhead) of V2V/python/vehicle/vehicle.py
report_sizes_v2v(payload, max_overhead) ==
    LET mac_header        == IF max_overhead THEN 40 ELSE 30
        llc_snap          == 8
        security_dsrc     == IF max_overhead THEN 100 ELSE 60
        dsrc_total        == payload + mac_header + llc_snap + security_dsrc
        sci               == IF max_overhead THEN 24 ELSE 16
        protocol_stack    == IF max_overhead THEN 40 ELSE 20
        security_cv2x     == 48
        cv2x_total        == payload + sci + protocol_stack + security_cv2x
        scheduling_info   == IF max_overhead THEN 40 ELSE 24
        protocol_stack_5g == 48
        security_5g       == 72
        v2x5g_total       == payload + scheduling_info + protocol_stack_5g + security_5g
    IN [Payload |-> payload, DSRC |-> dsrc_total, CV2X |-> cv2x_total, NR5G |-> v2x5g_total]

\* MessagePacket.report_sizes(payload, max_overhead) of V2I/python/vehicle/vehicle_v2i.py
report_sizes_v2i(payload, max_overhead) ==
    LET mac_header        == IF max_overhead THEN 40 ELSE 30
        llc_snap          == 8
        security_dsrc     == IF max_overhead THEN 100 ELSE 60
        dsrc_total        == payload + mac_header + llc_snap + security_dsrc
        sci               == IF max_overhead THEN 24 ELSE 16
        protocol_stack    == IF max_overhead THEN 40 ELSE 20
        security_cv2x     == 48
        cv2x_total        == payload + sci + protocol_stack + security_cv2x
        scheduling_info   == IF max_overhead THEN 40 ELSE 24
        protocol_stack_5g == 48
        security_5g       == 72
        v2x5g_total       == payload + scheduling_info + protocol_stack_5g + security_5g
    IN [Payload |-> payload, DSRC |-> dsrc_total, CV2X |-> cv2x_total, NR5G |-> v2x5g_total]

\* the largest payload size the table is built for
MaxPayload == 121

NoReports == [kind |-> "none"]

\* reports = {"Min OH-Min PL": report_sizes(min_payload, False), ...} of sumo_run.py
ReportTableV2V(min_payload, max_payload) ==
    [min_oh_min_pl |-> report_sizes_v2v(min_payload, FALSE),
     max_oh_min_pl |-> report_sizes_v2v(min_payload, TRUE),
     min_oh_max_pl |-> report_sizes_v2v(max_payload, FALSE),
     max_oh_max_pl |-> report_sizes_v2v(max_payload, TRUE)]

\* the same table of sumo_run_v2i.py
ReportTableV2I(min_payload, max_payload) ==
    [min_oh_min_pl |-> report_sizes_v2i(min_payload, FALSE),
     max_oh_min_pl |-> report_sizes_v2i(min_payload, TRUE),
     min_oh_max_pl |-> report_sizes_v2i(max_payload, FALSE),
     max_oh_max_pl |-> report_sizes_v2i(max_payload, TRUE)]

\* the report after the loop: min(packet_sizes) and max(packet_sizes) are the
\* inputs, and each program builds its table once
Report(min_payload, max_payload) ==
    /\ reports = NoReports
    /\ min_payload <= max_payload
    /\ reports' = [kind |-> "table", min_payload |-> min_payload, max_payload |-> max_payload,
                   v2v |-> ReportTableV2V(min_payload, max_payload),
                   v2i |-> ReportTableV2I(min_payload, max_payload)]
    /\ UNCHANGED lane_call
    /\ UNCHANGED <<imVars, v2iVars, v2vVars, vehVars>>

(***************************************************************************)
(* Specifications                                                          *)
(***************************************************************************)
Init ==
    /\ vehicle_states = <<>>
    /\ ret = NoRet
    /\ vehicle_objects = <<>>
    /\ current_ids = <<>>
    /\ step = FirstStep
    /\ cmds = NoCmds
    /\ pc = "running"
    /\ veh = NewVehicle(FirstReading)
    /\ op = "init"
    /\ pass = NoPass
    /\ reports = NoReports
    /\ v2i_veh = NewVehicleV2I([lane_pos |-> 35, current_lane |-> "41224286#1_0",
                                 edge_id |-> "41224286#1"])
    /\ v2i_call = NoCall
    /\ held_ticks = [vid \in SimVehicles |-> 0]
    /\ lane_call = NoLaneCall

\* register_vehicle(vehicle_id, state); the call returns nothing, and ret
\* keeps its arguments until the next call
RegisterVehicle(vid, state) ==
    /\ vehicle_states' = DictPut(vehicle_states, vid, state)
    /\ ret' = [kind |-> "none", decisions |-> <<>>, vid |-> vid, state |-> state]
    /\ UNCHANGED <<v2iVars, v2vVars, reportVars, vehVars>>

\* decisions = decide_priorities()
DecidePriorities ==
    /\ ret' = decide_priorities(vehicle_states)
    /\ UNCHANGED vehicle_states
    /\ UNCHANGED <<v2iVars, v2vVars, reportVars, vehVars>>

\* the arbiter driven through its two methods, in any order
NextIM ==
    \/ \E vid \in IMVehicles, state \in Snapshots : RegisterVehicle(vid, state)
    \/ DecidePriorities

SpecIM == Init /\ [][NextIM]_vars

\* the V2I tick loop
NextV2I ==
    \/ \E ids \in IdLists : \E sim \in [SeqToSet(ids) -> SimReadings] : Tick(ids, sim)
    \/ Close

SpecV2I == Init /\ [][NextV2I]_vars

\* one VehicleV2I object driven through its methods
NextVehV2I ==
    \/ \E sim \in VehReadings : VehUpdate(sim)
    \/ \E decision \in Verdicts : VehApplyDecision(decision)
    \/ \E event_type \in EventTypes, lane_name \in VehEventLanes :
          VehHandleEvent(event_type, lane_name)

SpecVehV2I == Init /\ [][NextVehV2I]_vars

\* one V2V vehicle driven through update, handle_unexpected_event and communicate
NextV2V ==
    \/ \E r \in Readings : Update(r)
    \/ \E event_type \in EventTypes, lane_name \in EventLanes : HandleEvent(event_type, lane_name)
    \/ \E others \in OtherLists : Communicate(others)

SpecV2V == Init /\ [][NextV2V]_vars

\* the overhead table for any pair of observed payload sizes
NextReport ==
    \E min_payload \in 0..MaxPayload, max_payload \in 0..MaxPayload :
        Report(min_payload, max_payload)

SpecReport == Init /\ [][NextReport]_vars

\* readings, neighbours and event lanes for the two controllers side by side:
\* a two-lane edge, a single-lane edge, and an edge whose id extends another's
EvPlacements ==
    { [position |-> <<4335, 1335>>, edge_id |-> "41224286#1", lane_pos |-> 40,
       current_lane |-> "41224286#1_0"],
      [position |-> <<4380, 1335>>, edge_id |-> ":J", lane_pos |-> 10,
       current_lane |-> ":J_0"],
      [position |-> <<4200, 1335>>, edge_id |-> "41224286#10", lane_pos |-> 5,
       current_lane |-> "41224286#10_0"] }

EvReadings ==
    { [position |-> p.position, edge_id |-> p.edge_id, lane_pos |-> p.lane_pos,
       current_lane |-> p.current_lane, speed |-> 100] : p \in EvPlacements }

EvOtherLists ==
    { <<>>,
      <<[k |-> OtherIds[1],
         v |-> [position |-> <<4345, 1335>>, edge_id |-> "41224286#1", lane_pos |-> 50,
                current_lane |-> "41224286#1_0", speed |-> 0]]>> }

EvLanes == {"41224286#1", "41224286#1_0", ":J", ":J_0"}

EvVehReadings == ReadingsOn({5}, {p.current_lane : p \in EvPlacements})

\* a V2V Vehicle and a VehicleV2I, each driven through update and the events
NextEvents ==
    \/ \E r \in EvReadings : Update(r)
    \/ \E event_type \in EventTypes, lane_name \in EvLanes : HandleEvent(event_type, lane_name)
    \/ \E others \in EvOtherLists : Communicate(others)
    \/ \E sim \in EvVehReadings : VehUpdate(sim)
    \/ \E event_type \in EventTypes, lane_name \in EvLanes :
          VehHandleEvent(event_type, lane_name)

SpecEvents == Init /\ [][NextEvents]_vars

\* the tick loop with vehicles that come down from beyond the approach zone
\* on the blocked lane: lane positions 50 and 35 lie past the zone, 20 in it
ZoneReadings == ReadingsOn({20, 35, 50}, {"41224286#1_0"})

NextV2IZone ==
    \/ \E ids \in IdLists : \E sim \in [SeqToSet(ids) -> ZoneReadings] : Tick(ids, sim)
    \/ Close

SpecV2IZone == Init /\ [][NextV2IZone]_vars

\* the widest edge _change_lane() is called on
MaxLanes == 7

\* a vehicle on lane lane_index of an edge with num_lanes lanes calls
\* _change_lane(); the simulator accepts or rejects a request
CallChangeLane(lane_index, num_lanes) ==
    \E res \in {change_lane(lane_index, num_lanes)} :
    \E accepted \in (IF res.lane_changes = <<>> THEN {TRUE} ELSE BOOLEAN) :
       /\ lane_call' = [kind |-> "v2v", lane_index |-> lane_index, num_lanes |-> num_lanes,
                        speed_cmds |-> res.speed_cmds, lane_changes |-> res.lane_changes,
                        accepted |-> accepted,
                        raised |-> ChangeLaneEscapes(ChangeLaneException(accepted))]
       /\ UNCHANGED <<imVars, v2iVars, v2vVars, vehVars, reports>>

CallChangeLaneV2I(lane_index, num_lanes) ==
    \E res \in {change_lane_v2i(lane_index, num_lanes)} :
    \E accepted \in (IF res.lane_changes = <<>> THEN {TRUE} ELSE BOOLEAN) :
       /\ lane_call' = [kind |-> "v2i", lane_index |-> lane_index, num_lanes |-> num_lanes,
                        speed_cmds |-> res.speed_cmds, lane_changes |-> res.lane_changes,
                        accepted |-> accepted,
                        raised |-> ChangeLaneEscapesV2I(ChangeLaneException(accepted))]
       /\ UNCHANGED <<imVars, v2iVars, v2vVars, vehVars, reports>>

\* _change_lane() of both controllers on every lane of edges of 1..MaxLanes lanes
NextLane ==
    \/ \E num_lanes \in 1..MaxLanes : \E lane_index \in 0..(num_lanes - 1) :
          CallChangeLane(lane_index, num_lanes)
    \/ \E num_lanes \in 1..MaxLanes : \E lane_index \in 0..(num_lanes - 1) :
          CallChangeLaneV2I(lane_index, num_lanes)

SpecLane == Init /\ [][NextLane]_vars

(***************************************************************************)
(* Properties                                                              *)
(***************************************************************************)
\* the approaching predicate as the specification words it: a defined
\* previous position, a position below it, and a position below 30
Approaching(st) == st.last_lane_pos # None /\ st.lane_pos < st.last_lane_pos /\ st.lane_pos < 30

RegisteredIds == DictKeySet(vehicle_states)

ApproachingIds == {vid \in RegisteredIds : Approaching(DictGet(vehicle_states, vid))}

Decided == ret.kind = "ok"

\* C1: whenever at least one registered agent is approaching, exactly one
\* approaching id receives 'go', that id has the minimum lane_pos among the
\* approaching agents, and every other approaching id receives 'wait'.
C1_SingleGrantee ==
    (Decided /\ ApproachingIds # {}) =>
        \E g \in ApproachingIds :
            /\ ret.decisions[g] = "go"
            /\ \A o \in ApproachingIds :
                  DictGet(vehicle_states, g).lane_pos <= DictGet(vehicle_states, o).lane_pos
            /\ \A o \in ApproachingIds \ {g} : ret.decisions[o] = "wait"

\* three agents approach at different distances; the nearest is granted, two wait
C1_Witness ==
    /\ Decided
    /\ Cardinality(ApproachingIds) = 3
    /\ \E g \in ApproachingIds :
          /\ ret.decisions[g] = "go"
          /\ \A o \in ApproachingIds \ {g} :
                /\ ret.decisions[o] = "wait"
                /\ DictGet(vehicle_states, g).lane_pos < DictGet(vehicle_states, o).lane_pos

\* the registry restricted to the agents observed in the current tick
RECURSIVE RestrictTo(_, _)
RestrictTo(d, ids) ==
    IF d = <<>> THEN <<>>
    ELSE IF Head(d).k \in ids THEN <<Head(d)>> \o RestrictTo(Tail(d), ids)
         ELSE RestrictTo(Tail(d), ids)

\* C2: the snapshot set the arbiter decides on in a tick is exactly the set
\* of agents observed in that tick: a snapshot of an agent that is no longer
\* observed is discarded and takes no part in the verdicts of a later tick.
C2_DecidesOnObservedOnly ==
    (pc = "running" /\ Decided) =>
        /\ RegisteredIds = SeqToSet(current_ids)
        /\ \A vid \in SeqToSet(current_ids) :
              ret.decisions[vid] =
                 decide_priorities(RestrictTo(vehicle_states, SeqToSet(current_ids))).decisions[vid]

\* C3: apply_decision on an agent with lane_pos > 30 issues exactly the
\* release command -1.0, for either verdict; it never issues a stop.
C3_PastZoneOverride ==
    (v2i_call.name = "apply_decision" /\ v2i_veh.lane_pos > 30) =>
        v2i_call.speed_cmds = <<-10>>

\* apply_decision('wait') was called on an agent past the zone, and released it
C3_Witness ==
    /\ v2i_call.name = "apply_decision"
    /\ v2i_call.arg = "wait"
    /\ v2i_veh.lane_pos > 30
    /\ v2i_call.speed_cmds = <<-10>>

\* the agent of a pass is outside the rectangle 4370..4400 x 1320..1350 and
\* another agent is inside it at a distance below 15
InsideZone(v) ==
    /\ 4370 <= v.position[1] /\ v.position[1] <= 4400
    /\ 1320 <= v.position[2] /\ v.position[2] <= 1350

SqDistance(a, b) ==
    (a.position[1] - b.position[1]) * (a.position[1] - b.position[1])
  + (a.position[2] - b.position[2]) * (a.position[2] - b.position[2])

ConflictStopFires(p) ==
    /\ ~InsideZone(p.pre)
    /\ \E i \in 1..Len(p.others) :
          InsideZone(p.others[i].v) /\ SqDistance(p.pre, p.others[i].v) < 15 * 15

Passed == pass.kind = "pass"

\* C4 as claimed: the communicate() that follows a lane_block event on the
\* agent's lane leaves lane_blocked cleared whatever the other agents are,
\* and a pass that follows a pass begun with the flag pending, with no new
\* event in between, issues no lane-change request.
C4_OneShotAlways ==
    [][ /\ (op = "lane_block_hit" /\ op' = "communicate") => ~veh'.lane_blocked
        /\ (op = "communicate" /\ Passed /\ pass.pre.lane_blocked /\ op' = "communicate")
              => pass'.lane_changes = <<>> ]_vars

\* C4 as amended: a communicate() in which the step-1 conflict stop does not
\* fire and no stop_needed flag is pending leaves lane_blocked cleared; a
\* communicate() that starts with lane_blocked clear issues no lane-change
\* request and leaves it clear.
C4_OneShot ==
    Passed =>
        /\ (pass.pre.lane_blocked /\ ~ConflictStopFires(pass) /\ ~pass.pre.stop_needed)
              => ~veh.lane_blocked
        /\ ~pass.pre.lane_blocked => (pass.lane_changes = <<>> /\ ~veh.lane_blocked)

\* a pass consumed a pending lane_blocked flag with a lane-change request
C4_Witness ==
    /\ Passed
    /\ pass.pre.lane_blocked
    /\ ~pass.pre.stop_needed
    /\ ~ConflictStopFires(pass)
    /\ pass.lane_changes # <<>>
    /\ ~veh.lane_blocked

\* the speed commands of a pass, as a set
SpeedCommands(p) == {p.speed_cmds[i] : i \in 1..Len(p.speed_cmds)}

\* C5: an agent inside the conflict-zone rectangle with no blockage flag
\* pending is never commanded speed 0, whatever the other agents do.
C5_NeverStoppedInside ==
    (Passed /\ InsideZone(pass.pre) /\ ~pass.pre.stop_needed /\ ~pass.pre.lane_blocked) =>
        0 \notin SpeedCommands(pass)

\* C6: when no registered agent is approaching (the empty registry
\* included), the result maps every registered id to 'go'.
C6_UncontendedProceed ==
    (ret.kind # "none" /\ ApproachingIds = {}) =>
        /\ Decided
        /\ DOMAIN ret.decisions = RegisteredIds
        /\ \A vid \in RegisteredIds : ret.decisions[vid] = "go"

\* three agents are registered inside the zone or coming from farther away,
\* none approaching, and all proceed
C6_Witness ==
    /\ Decided
    /\ Cardinality(RegisteredIds) = 3
    /\ ApproachingIds = {}
    /\ \E vid \in RegisteredIds :
          LET st == DictGet(vehicle_states, vid)
          IN st.last_lane_pos # None /\ st.lane_pos < st.last_lane_pos
    /\ \A vid \in RegisteredIds : ret.decisions[vid] = "go"

\* C7: every registered agent that is not approaching receives 'go' whether
\* or not others are approaching; an agent whose last_lane_pos is undefined
\* is not approaching, and the decision completes without error.
C7_NonApproachingProceed ==
    ret.kind # "none" =>
        /\ Decided
        /\ \A vid \in RegisteredIds :
              (DictGet(vehicle_states, vid).last_lane_pos = None
                  => vid \notin ApproachingIds)
              /\ (vid \notin ApproachingIds => ret.decisions[vid] = "go")

\* an agent on its first tick proceeds while one approaching agent is held
C7_Witness ==
    /\ Decided
    /\ \E vid \in RegisteredIds :
          /\ DictGet(vehicle_states, vid).last_lane_pos = None
          /\ DictGet(vehicle_states, vid).lane_pos < 30
          /\ ret.decisions[vid] = "go"
    /\ \E vid \in ApproachingIds : ret.decisions[vid] = "wait"

\* the total the specification's table gives for a protocol
ExpectedTotal(proto, payload, max_overhead) ==
    CASE proto = "DSRC" ->
           payload + (IF max_overhead THEN 40 ELSE 30) + 8 + (IF max_overhead THEN 100 ELSE 60)
      [] proto = "CV2X" ->
           payload + (IF max_overhead THEN 24 ELSE 16) + (IF max_overhead THEN 40 ELSE 20) + 48
      [] proto = "NR5G" ->
           payload + (IF max_overhead THEN 40 ELSE 24) + 48 + 72

ReportAsSpecified(r, payload, max_overhead) ==
    /\ r.Payload = payload
    /\ r.DSRC = ExpectedTotal("DSRC", payload, max_overhead)
    /\ r.CV2X = ExpectedTotal("CV2X", payload, max_overhead)
    /\ r.NR5G = ExpectedTotal("NR5G", payload, max_overhead)

TableAsSpecified(t, min_payload, max_payload) ==
    /\ ReportAsSpecified(t.min_oh_min_pl, min_payload, FALSE)
    /\ ReportAsSpecified(t.max_oh_min_pl, min_payload, TRUE)
    /\ ReportAsSpecified(t.min_oh_max_pl, max_payload, FALSE)
    /\ ReportAsSpecified(t.max_oh_max_pl, max_payload, TRUE)

Reported == reports.kind = "table"

\* C8: report_sizes returns Payload = payload and, per protocol, payload
\* plus the components of the overhead mode; the V2V and V2I copies agree.
C8_OverheadExact ==
    Reported =>
        /\ TableAsSpecified(reports.v2v, reports.min_payload, reports.max_payload)
        /\ TableAsSpecified(reports.v2i, reports.min_payload, reports.max_payload)
        /\ reports.v2v = reports.v2i

\* payload 120: 218 / 268 for DSRC, 204 for C-V2X min, 280 for 5G NR-V2X max
C8_Witness ==
    /\ Reported
    /\ reports.min_payload = 120
    /\ reports.v2v.min_oh_min_pl.DSRC = 218
    /\ reports.v2v.max_oh_min_pl.DSRC = 268
    /\ reports.v2i.min_oh_min_pl.CV2X = 204
    /\ reports.v2i.max_oh_min_pl.NR5G = 280

Protocols == {"DSRC", "CV2X", "NR5G"}

\* C9: for each protocol the total with maximum overhead is at least the
\* total with minimum overhead, and total - payload is the same for the two
\* payloads of the table, per protocol and overhead mode.
C9_OverheadMonotone ==
    Reported =>
        \A proto \in Protocols :
            /\ reports.v2v.max_oh_min_pl[proto] >= reports.v2v.min_oh_min_pl[proto]
            /\ reports.v2v.max_oh_max_pl[proto] >= reports.v2v.min_oh_max_pl[proto]
            /\ reports.v2v.min_oh_min_pl[proto] - reports.min_payload
                  = reports.v2v.min_oh_max_pl[proto] - reports.max_payload
            /\ reports.v2v.max_oh_min_pl[proto] - reports.min_payload
                  = reports.v2v.max_oh_max_pl[proto] - reports.max_payload

\* a table for two different payloads, the overhead modes strictly apart
C9_Witness ==
    /\ Reported
    /\ reports.min_payload = 0
    /\ reports.max_payload = 120
    /\ \A proto \in Protocols :
          reports.v2v.max_oh_max_pl[proto] > reports.v2v.min_oh_max_pl[proto]

\* the leaders of a pass as the claim words them: other agents on the same
\* edge, within radius 20, with a larger lane_pos
LeaderIndexes(p) ==
    {i \in 1..Len(p.others) :
        /\ p.others[i].v.edge_id = p.pre.edge_id
        /\ SqDistance(p.pre, p.others[i].v) <= 20 * 20
        /\ p.others[i].v.lane_pos > p.pre.lane_pos}

NearestLeaderIndexes(p) ==
    {i \in LeaderIndexes(p) :
        \A j \in LeaderIndexes(p) :
            SqDistance(p.pre, p.others[i].v) <= SqDistance(p.pre, p.others[j].v)}

\* C10: with no conflict stop, no blockage flag pending and at least one
\* leader, the pass commands 0.8 x the speed of a nearest leader when that
\* leader is closer than 15, and issues no speed command otherwise.
C10_CarFollowing ==
    (/\ Passed
     /\ ~ConflictStopFires(pass)
     /\ ~pass.pre.stop_needed /\ ~pass.pre.lane_blocked
     /\ LeaderIndexes(pass) # {}) =>
        IF \E i \in LeaderIndexes(pass) : SqDistance(pass.pre, pass.others[i].v) < 15 * 15
        THEN \E i \in NearestLeaderIndexes(pass) :
                pass.speed_cmds = <<(pass.others[i].v.speed * 8) \div 10>>
        ELSE pass.speed_cmds = <<>>

\* A at 40 behind B at 50, both at 10 m/s: A is commanded 8 m/s
C10_Witness ==
    /\ Passed
    /\ ~pass.pre.stop_needed /\ ~pass.pre.lane_blocked
    /\ pass.pre.lane_pos = 40 /\ pass.pre.speed = 100
    /\ Len(pass.others) = 1
    /\ pass.others[1].v.lane_pos = 50 /\ pass.others[1].v.speed = 100
    /\ pass.others[1].v.edge_id = pass.pre.edge_id
    /\ pass.speed_cmds = <<80>>

\* C11: when the agent is outside the rectangle and another agent is inside
\* it closer than the safety distance, the pass issues exactly one command,
\* a stop, requests no lane change and leaves both flags as they were.
C11_ConflictStopShortCircuits ==
    (Passed /\ ConflictStopFires(pass)) =>
        /\ pass.speed_cmds = <<0>>
        /\ pass.lane_changes = <<>>
        /\ veh.stop_needed = pass.pre.stop_needed
        /\ veh.lane_blocked = pass.pre.lane_blocked

\* the stop fired while both flags were pending and a slower leader was
\* close ahead on the agent's own edge; both flags are still pending
C11_Witness ==
    /\ Passed
    /\ ConflictStopFires(pass)
    /\ pass.pre.stop_needed /\ pass.pre.lane_blocked
    /\ LeaderIndexes(pass) # {}
    /\ pass.speed_cmds = <<0>>
    /\ veh.stop_needed /\ veh.lane_blocked

\* the commands a pass of the V2V agent sends
PassCommands == [speed_cmds |-> pass.speed_cmds, lane_changes |-> pass.lane_changes]

\* the commands of the same pass had a full_block on the agent's edge been
\* pending in place of the lane_block
PassCommandsAfterFullBlock ==
    LET blocked == handle_unexpected_event([pass.pre EXCEPT !.lane_blocked = FALSE],
                                           "full_block", pass.pre.edge_id)
        res == communicate(EgoId, blocked, <<[k |-> EgoId, v |-> blocked]>> \o pass.others)
    IN [speed_cmds |-> res.speed_cmds, lane_changes |-> res.lane_changes]

\* the commands of a V2I event call, and of full_block on the agent's edge
CallCommands == [speed_cmds |-> v2i_call.speed_cmds, lane_changes |-> v2i_call.lane_changes]

CallCommandsOfFullBlock ==
    handle_unexpected_event_v2i(v2i_veh, "full_block", v2i_veh.edge_id,
                                LaneIndex(v2i_veh.current_lane))

StopOnly == [speed_cmds |-> <<0>>, lane_changes |-> <<>>]

LaneBlockCall ==
    /\ v2i_call.name = "handle_unexpected_event"
    /\ v2i_call.arg = "lane_block"
    /\ v2i_call.lane_name = v2i_veh.current_lane

\* C12: on an edge with exactly one lane a lane_block on the agent's lane
\* yields the commands of a full_block on that edge, a stop and no
\* lane-change request, in the V2V pass that consumes the flag and in the
\* V2I event handler.
C12_SingleLaneFallback ==
    /\ (Passed /\ pass.pre.lane_blocked /\ ~pass.pre.stop_needed
            /\ NumLanes(pass.pre.edge_id) = 1) =>
          (PassCommands = StopOnly /\ PassCommands = PassCommandsAfterFullBlock)
    /\ (LaneBlockCall /\ NumLanes(v2i_veh.edge_id) = 1) =>
          (CallCommands = StopOnly /\ CallCommands = CallCommandsOfFullBlock)

\* both controllers have reacted to a lane_block on the single-lane edge
C12_Witness ==
    /\ Passed /\ pass.pre.lane_blocked /\ ~pass.pre.stop_needed
    /\ pass.pre.current_lane = ":J_0"
    /\ PassCommands = StopOnly
    /\ ~veh.lane_blocked
    /\ LaneBlockCall /\ v2i_veh.current_lane = ":J_0"
    /\ CallCommands = StopOnly

\* C13: apply_decision on an agent with lane_pos <= 30 issues exactly a stop
\* for 'wait' and exactly the release command -1.0 for 'go'.
C13_VerdictApplied ==
    (v2i_call.name = "apply_decision" /\ v2i_veh.lane_pos <= 30) =>
        /\ v2i_call.arg = "wait" => v2i_call.speed_cmds = <<0>>
        /\ v2i_call.arg = "go" => v2i_call.speed_cmds = <<-10>>

\* 'wait' stopped an agent at lane_pos 30, the last position of the zone
C13_Witness ==
    /\ v2i_call.name = "apply_decision"
    /\ v2i_call.arg = "wait"
    /\ v2i_veh.lane_pos = 30
    /\ v2i_call.speed_cmds = <<0>>

\* the registries that hold the same snapshot for the same ids as d, the ids
\* first registered in any order
Orderings(d) ==
    {[i \in 1..Len(d) |-> d[f[i]]] : f \in Permutations(1..Len(d))}

\* the approaching agents at the least lane_pos
NearestApproachingIds ==
    {g \in ApproachingIds :
        \A o \in ApproachingIds :
            DictGet(vehicle_states, g).lane_pos <= DictGet(vehicle_states, o).lane_pos}

\* position of an id in the registry: the order of first registration
RegistrationIndex(vid) ==
    CHOOSE i \in 1..Len(vehicle_states) : vehicle_states[i].k = vid

\* C14 as claimed: every arbiter that holds the same snapshots for the same
\* ids returns the same verdict map, whatever the order of registration.
C14_OrderIndependent ==
    Decided =>
        \A o \in Orderings(vehicle_states) : decide_priorities(o).decisions = ret.decisions

\* C14 as amended: the verdict map is the same for every order of
\* registration when no two approaching agents share the least lane_pos;
\* when they do, the one registered first among them is granted.
C14_Deterministic ==
    Decided =>
        /\ Cardinality(NearestApproachingIds) <= 1 =>
              \A o \in Orderings(vehicle_states) :
                  decide_priorities(o).decisions = ret.decisions
        /\ \A g \in NearestApproachingIds :
              ret.decisions[g] = "go" <=>
                  \A o \in NearestApproachingIds : RegistrationIndex(g) <= RegistrationIndex(o)

\* two approaching agents tie at the least lane_pos; the one registered
\* first is granted and the other one waits
C14_Witness ==
    /\ Decided
    /\ Cardinality(NearestApproachingIds) = 2
    /\ Cardinality(ApproachingIds) = 3
    /\ \E g, h \in NearestApproachingIds :
          /\ RegistrationIndex(g) < RegistrationIndex(h)
          /\ ret.decisions[g] = "go"
          /\ ret.decisions[h] = "wait"

\* the call before this state was register_vehicle(ret.vid, ret.state)
Registered == ret.kind = "none" /\ ret # NoRet

\* C15: register_vehicle is a last-write-wins upsert (one entry per id, the
\* entry of the registered id holds the snapshot just registered, the other
\* entries are untouched, registering an entry again changes nothing), and
\* decide_priorities returns one verdict in {'go','wait'} for each
\* registered id and for no other id, 'wait' only for an id whose latest
\* snapshot is approaching.
C15_TotalUpsert ==
    /\ [](Registered =>
            /\ DictHas(vehicle_states, ret.vid)
            /\ DictGet(vehicle_states, ret.vid) = ret.state)
    /\ [](/\ Len(vehicle_states) = Cardinality(RegisteredIds)
          /\ \A vid \in RegisteredIds :
                DictPut(vehicle_states, vid, DictGet(vehicle_states, vid)) = vehicle_states)
    /\ [](Decided =>
            /\ DOMAIN ret.decisions = RegisteredIds
            /\ \A vid \in RegisteredIds :
                  /\ ret.decisions[vid] \in {"go", "wait"}
                  /\ ret.decisions[vid] = "wait" => vid \in ApproachingIds)
    /\ [][Registered' =>
            /\ RegisteredIds' = RegisteredIds \cup {ret'.vid}
            /\ \A o \in RegisteredIds \ {ret'.vid} :
                  DictGet(vehicle_states', o) = DictGet(vehicle_states, o)]_vars

\* an agent registered as approaching was registered again as not
\* approaching while two others approach; the decision covers the three ids
\* and lets it go on its latest snapshot
C15_Witness ==
    /\ Decided
    /\ Cardinality(RegisteredIds) = 3
    /\ Cardinality(ApproachingIds) = 2
    /\ \E vid \in RegisteredIds \ ApproachingIds :
          /\ RegistrationIndex(vid) = 1
          /\ DictGet(vehicle_states, vid).lane_pos = 35
          /\ ret.decisions[vid] = "go"
    /\ \E vid \in ApproachingIds : ret.decisions[vid] = "wait"

\* in a tick of the V2I loop every observed agent is registered with the
\* snapshot its object reports and finds its verdict
TickDecidesEveryObserved ==
    (pc = "running" /\ Decided) =>
        \A vid \in SeqToSet(current_ids) :
            /\ DictGet(vehicle_states, vid) = ReportState(DictGet(vehicle_objects, vid))
            /\ vid \in DOMAIN ret.decisions
            /\ ret.decisions[vid] \in {"go", "wait"}

\* the observed agents of the tick just decided
ObservedIds == SeqToSet(current_ids)

\* vid approaches and a registered approaching agent is strictly closer
HasCloserCompetitor(vid) ==
    /\ vid \in ApproachingIds
    /\ \E o \in ApproachingIds :
          DictGet(vehicle_states, o).lane_pos < DictGet(vehicle_states, vid).lane_pos

\* C16: the arbiter keeps no memory of past grants: in every tick an
\* observed approaching agent with a closer approaching competitor receives
\* 'wait', however many approaching ticks in a row it has been held
\* already, so an agent can be held on every tick on which it approaches.
C16_NoMemoryOfGrants ==
    (pc = "running" /\ Decided) =>
        \A vid \in ObservedIds : HasCloserCompetitor(vid) => ret.decisions[vid] = "wait"

\* an agent has been held behind a closer observed competitor on each of
\* its latest MaxHeldTicks approaching ticks, the tick just decided included
C16_Witness ==
    /\ pc = "running" /\ Decided
    /\ \E vid \in ObservedIds :
          /\ held_ticks[vid] = MaxHeldTicks
          /\ HasCloserCompetitor(vid)
          /\ ret.decisions[vid] = "wait"
          /\ cmds[vid] # <<>> /\ cmds[vid][Len(cmds[vid])] = 0
          /\ \E o \in ObservedIds \ {vid} : ret.decisions[o] = "go" /\ o \in ApproachingIds

\* the lane index a lane change away from the lane of v asks for, on the
\* two-lane edge: the other lane
OtherLaneIndex(v) == IF v.current_lane = "41224286#1_0" THEN 1 ELSE 0

\* C17: with a blockage flag pending and no step-1 stop, the pass reacts to
\* the blockage (a stop for stop_needed; a lane change, or a stop on a
\* single lane, for lane_blocked), clears the flag it reacted to and issues
\* no leader-based speed command, whatever leaders are present.
C17_BlockageBeforeLeaders ==
    (Passed /\ ~ConflictStopFires(pass)) =>
        /\ pass.pre.stop_needed =>
              /\ pass.speed_cmds = <<0>> /\ pass.lane_changes = <<>>
              /\ ~veh.stop_needed
              /\ veh.lane_blocked = pass.pre.lane_blocked
        /\ (pass.pre.lane_blocked /\ ~pass.pre.stop_needed) =>
              /\ IF pass.pre.edge_id = "41224286#1"
                 THEN pass.speed_cmds = <<>> /\ pass.lane_changes = <<OtherLaneIndex(pass.pre)>>
                 ELSE pass.speed_cmds = <<0>> /\ pass.lane_changes = <<>>
              /\ ~veh.lane_blocked /\ ~veh.stop_needed

\* a pending lane_blocked was answered by a lane change and no speed
\* command, with a moving leader closer than the safety distance
C17_Witness ==
    /\ Passed /\ ~ConflictStopFires(pass)
    /\ pass.pre.lane_blocked /\ ~pass.pre.stop_needed
    /\ \E i \in LeaderIndexes(pass) :
          /\ SqDistance(pass.pre, pass.others[i].v) < 15 * 15
          /\ pass.others[i].v.speed = 100
    /\ pass.lane_changes = <<1>>
    /\ pass.speed_cmds = <<>>
    /\ ~veh.lane_blocked

\* C18: a full_block event never changes lane_blocked and a lane_block event
\* never changes stop_needed; an event of a kind whose flag is already set
\* changes nothing; with both flags pending, a pass without step-1 stop
\* reacts to stop_needed and leaves lane_blocked pending, and a second such
\* pass with no event in between leaves both flags clear.
C18_IndependentFlags ==
    [][ /\ op' = "full_block" =>
              /\ veh'.lane_blocked = veh.lane_blocked
              /\ veh.stop_needed => veh' = veh
        /\ op' \in {"lane_block", "lane_block_hit"} =>
              /\ veh'.stop_needed = veh.stop_needed
              /\ veh.lane_blocked => veh' = veh
        /\ (op' = "communicate" /\ veh.stop_needed /\ veh.lane_blocked
                /\ ~ConflictStopFires(pass')) =>
              /\ pass'.speed_cmds = <<0>> /\ pass'.lane_changes = <<>>
              /\ ~veh'.stop_needed /\ veh'.lane_blocked
        /\ (op = "communicate" /\ op' = "communicate"
                /\ pass.pre.stop_needed /\ pass.pre.lane_blocked
                /\ ~ConflictStopFires(pass) /\ ~ConflictStopFires(pass')) =>
              /\ ~veh'.stop_needed /\ ~veh'.lane_blocked
              /\ pass'.speed_cmds \o pass'.lane_changes # <<>> ]_vars

\* both flags were pending; the pass stopped the agent for stop_needed and
\* left lane_blocked pending for the next pass
C18_Witness ==
    /\ Passed /\ ~ConflictStopFires(pass)
    /\ pass.pre.stop_needed /\ pass.pre.lane_blocked
    /\ pass.speed_cmds = <<0>> /\ pass.lane_changes = <<>>
    /\ ~veh.stop_needed /\ veh.lane_blocked

\* the simulator rejected the lane change a V2V pass / a V2I event call asked for
PassRejected == Passed /\ pass.lane_changes # <<>> /\ ~pass.accepted

CallRejected ==
    /\ v2i_call.name = "handle_unexpected_event"
    /\ v2i_call.lane_changes # <<>>
    /\ ~v2i_call.accepted

\* the fields update() reads from the simulator
Kinematics(v) ==
    [position |-> v.position, edge_id |-> v.edge_id, lane_pos |-> v.lane_pos,
     current_lane |-> v.current_lane, speed |-> v.speed]

\* C19: when the simulator rejects the changeLane request nothing leaves
\* communicate() (V2V) or handle_unexpected_event() (V2I): the call
\* completes, the one request is the only command sent, and the position,
\* edge, lane and speed of the agent are as before the call.
C19_RejectionRecovered ==
    /\ [](PassRejected =>
            /\ ~pass.raised
            /\ pass.speed_cmds = <<>> /\ Len(pass.lane_changes) = 1
            /\ Kinematics(veh) = Kinematics(pass.pre)
            /\ ~veh.lane_blocked)
    /\ [](CallRejected =>
            /\ ~v2i_call.raised
            /\ v2i_call.speed_cmds = <<>> /\ Len(v2i_call.lane_changes) = 1)
    /\ [][v2i_call'.name = "handle_unexpected_event" => v2i_veh' = v2i_veh]_vars

\* both controllers asked for the other lane of the two-lane edge, were
\* refused, and returned normally
C19_Witness ==
    /\ PassRejected /\ ~pass.raised
    /\ pass.lane_changes = <<1>> /\ pass.speed_cmds = <<>>
    /\ pass.others # <<>>
    /\ CallRejected /\ ~v2i_call.raised
    /\ v2i_call.lane_changes = <<1>> /\ v2i_call.speed_cmds = <<>>

\* the edges of the network
EdgeIds == {"41224286#1", "41224286#10", ":J"}

\* the call before this state was handle_unexpected_event('full_block', E)
\* with E an edge, on the V2V agent / on the V2I agent
FullBlockEvent ==
    pass.kind = "event" /\ pass.event_type = "full_block" /\ pass.lane_name \in EdgeIds

FullBlockCall ==
    /\ v2i_call.name = "handle_unexpected_event"
    /\ v2i_call.arg = "full_block"
    /\ v2i_call.lane_name \in EdgeIds

\* C20: a full_block event carrying edge E makes the agent react (V2V:
\* stop_needed set; V2I: stop commanded) if and only if the agent's current
\* edge is E; an agent on any other edge, one whose id contains E included,
\* is left untouched.
C20_FullBlockOnOwnEdgeOnly ==
    /\ FullBlockEvent =>
          IF pass.pre.edge_id = pass.lane_name THEN veh.stop_needed ELSE veh = pass.pre
    /\ FullBlockCall =>
          IF v2i_veh.edge_id = v2i_call.lane_name
          THEN v2i_call.speed_cmds = <<0>>
          ELSE v2i_call.speed_cmds = <<>> /\ v2i_call.lane_changes = <<>>

\* C21: on an edge with n >= 2 lanes, from lane i, _change_lane asks for
\* lane 1 - i when n = 2 and for lane (i + 1) mod n otherwise; the target is
\* a lane of the edge other than i; with n <= 1 no request is made.
C21_TargetLane ==
    lane_call.kind # "none" =>
        LET i == lane_call.lane_index
            n == lane_call.num_lanes
        IN IF n >= 2
           THEN /\ lane_call.lane_changes = <<IF n = 2 THEN 1 - i ELSE (i + 1) % n>>
                /\ lane_call.lane_changes[1] \in (0..(n - 1)) \ {i}
           ELSE lane_call.lane_changes = <<>>

\* from the last lane of a three-lane edge the request wraps round to lane 0
C21_Witness ==
    /\ lane_call.kind = "v2v"
    /\ lane_call.num_lanes = 3
    /\ lane_call.lane_index = 2
    /\ lane_call.lane_changes = <<0>>

\* C22: a hold does not persist for an agent that obeys it: an agent
\* observed in two ticks running whose lane_pos in the second is not below
\* its lane_pos in the first is not approaching in the second and receives
\* 'go', whatever the other agents do.
C22_HoldDoesNotPersist ==
    [][pc' = "running" =>
         \A vid \in SeqToSet(current_ids) \cap SeqToSet(current_ids') :
             DictGet(vehicle_objects', vid).lane_pos >= DictGet(vehicle_objects, vid).lane_pos =>
                 /\ ~Approaching(DictGet(vehicle_states', vid))
                 /\ ret'.decisions[vid] = "go"]_vars

\* an agent that was held earlier stands at lane_pos 20 as in the tick
\* before and is released, while the other agent approaches and is granted
C22_Witness ==
    /\ pc = "running" /\ Decided
    /\ \E vid \in ObservedIds :
          /\ held_ticks[vid] > 0
          /\ DictGet(vehicle_objects, vid).lane_pos = 20
          /\ DictGet(vehicle_objects, vid).last_lane_pos = 20
          /\ ret.decisions[vid] = "go"
          /\ cmds[vid] # <<>> /\ cmds[vid][Len(cmds[vid])] = -10
          /\ \E o \in ObservedIds \ {vid} :
                o \in ApproachingIds /\ ret.decisions[o] = "go"

\* the last setSpeed command vid received in the tick just decided
LastCommand(vid) == cmds[vid][Len(cmds[vid])]

\* C23: in every tick every observed agent whose verdict is 'wait' has a
\* registered lane_pos below 30 and is commanded speed 0 by apply_decision:
\* the past-zone override never turns a hold of the same tick into a release.
C23_HoldIsApplied ==
    (pc = "running" /\ Decided) =>
        \A vid \in ObservedIds :
            ret.decisions[vid] = "wait" =>
                /\ DictGet(vehicle_states, vid).lane_pos < 30
                /\ DictGet(vehicle_objects, vid).lane_pos = DictGet(vehicle_states, vid).lane_pos
                /\ cmds[vid] # <<>>
                /\ LastCommand(vid) = 0

\* two agents came down into the zone from 35 and from 50 and tie at 20:
\* the one registered second is held, and its last command is the stop
C23_Witness ==
    /\ pc = "running" /\ Decided
    /\ \E vid, o \in ObservedIds :
          /\ ret.decisions[vid] = "wait"
          /\ DictGet(vehicle_objects, vid).lane_pos = 20
          /\ DictGet(vehicle_objects, vid).last_lane_pos = 35
          /\ LastCommand(vid) = 0
          /\ DictGet(vehicle_objects, o).last_lane_pos = 50
          /\ ret.decisions[o] = "go"
          /\ LastCommand(o) = -10

\* the command apply_decision sends for a verdict at a lane position
AppliedCommand(lane_pos, verdict) ==
    IF lane_pos > 30 THEN -10 ELSE IF verdict = "wait" THEN 0 ELSE -10

\* C24: in a tick the full-block stops are sent before the agents are
\* refreshed, to the agents known from earlier ticks whose lane as of the
\* tick before lies on the blocked edge, and apply_decision then sends one
\* command to every observed agent; so the last command of an observed
\* agent is the one of apply_decision, and a full-block stop is followed
\* by a release in the same tick when the verdict is 'go' or lane_pos > 30.
C24_ApplyDecisionLast ==
    /\ []((pc = "running" /\ Decided) =>
            \A vid \in ObservedIds :
                LET lane_pos == DictGet(vehicle_objects, vid).lane_pos
                IN /\ Len(cmds[vid]) \in {1, 2}
                   /\ LastCommand(vid) = AppliedCommand(lane_pos, ret.decisions[vid])
                   /\ Len(cmds[vid]) = 2 => cmds[vid][1] = 0
                   /\ (ret.decisions[vid] = "go" \/ lane_pos > 30) => LastCommand(vid) = -10)
    /\ [][pc' = "running" =>
            \A vid \in SeqToSet(current_ids') :
                Len(cmds'[vid]) = 2 <=>
                    /\ step < 20
                    /\ DictHas(vehicle_objects, vid)
                    /\ DictGet(vehicle_objects, vid).edge_id = "41224286#1"]_vars

\* an agent in the zone was stopped by the full-block event and released by
\* its 'go' verdict in the same tick, after moving on to the other edge
C24_Witness ==
    /\ pc = "running" /\ Decided
    /\ \E vid \in ObservedIds :
          /\ cmds[vid] = <<0, -10>>
          /\ ret.decisions[vid] = "go"
          /\ DictGet(vehicle_objects, vid).lane_pos = 5
          /\ DictGet(vehicle_objects, vid).current_lane = "23339459_0"
          /\ vid \in ApproachingIds

====
